---- MODULE Spec2Model ----
(***************************************************************************)
(* Housing price direction RL: state encoder (state_encoder.py), episodic  *)
(* environment (environment.py), tabular Q-learning and greedy rollout     *)
(* (qlearning.py), evaluation metrics and forecasts (api.py).  Python      *)
(* floats that only ever hold 1.0 / -1.0 / 0.0 are integers here, returns  *)
(* and means are exact fractions; table indices are 0-based as in the      *)
(* source, so row i of the DataFrame is element i+1 of the sequence df.    *)
(***************************************************************************)
EXTENDS Integers, Sequences, FiniteSets, TLC

VARIABLES
    df,           \* HousingEnv.df: the monthly feature table (sequence of rows)
    current_idx,  \* HousingEnv.current_idx (None before the first reset)
    call,         \* the last environment call: operation, argument, state before it
    ret,          \* what that call returned or raised
    ep_done,      \* history: the current episode has returned done = True
    extra,        \* history: number of step calls made after done = True
    reset_from,   \* history: the kind of state the last successful reset was called from
    twin,         \* a second HousingEnv on the same table, always in its first episode
    others,       \* the outcome of the last step call for every possible action
    enc_in,       \* arguments of the encoder call under test
    enc_out,      \* its result
    Q,            \* the value table (entries scaled by QScale)
    pc,           \* where the caller of train_q_learning / run_greedy_policy stands
    params,       \* the arguments of those calls
    tr,           \* locals of train_q_learning; tr.log: the step rewards of every episode
    g,            \* locals of run_greedy_policy
    metrics,      \* the metrics dict of train_rl_for_state_df
    fc,           \* what the forecast functions last returned
    eps_k         \* the exploration rate of successive episodes

envVars == <<df, current_idx, call, ret, ep_done, extra, reset_from, twin, others>>
encVars == <<enc_in, enc_out>>
rlVars == <<Q, pc, params, tr, g>>
apiVars == <<metrics, fc, eps_k>>
vars == <<df, current_idx, call, ret, ep_done, extra, reset_from, twin, others,
         enc_in, enc_out, Q, pc, params, tr, g, metrics, fc, eps_k>>

(***************************************************************************)
(* Bounds of the model                                                     *)
(***************************************************************************)
MaxRows == 3          \* tables have 0..MaxRows rows
MaxExtraSteps == 2    \* step calls explored after an episode has finished
EncMag == 2           \* encoder arguments range over -EncMag .. EncMag+1
MaxTrainRows == 3     \* tables used for training and rollouts have 0..MaxTrainRows rows
MaxEpisodes == 1      \* train_q_learning runs 0..MaxEpisodes episodes
MaxEpsEpisodes == 6   \* the exploration rate is followed over episodes 0..MaxEpsEpisodes
MaxForecastCalls == 2 \* calls made of each forecast function
MaxFcRows == 3        \* tables handed to the forecasts have 0..MaxFcRows rows

(***************************************************************************)
(* Python values                                                           *)
(***************************************************************************)
None == -1            \* current_idx = None (indices are >= 0)

\* An argument of an encoder function: an int, or an object int() rejects
\* (None, a non-numeric string), for which the source's try/except applies.
IntVal(i) == [kind |-> "int", v |-> i]
NonInt == [kind |-> "obj", v |-> 0]

\* dict.get(k, dflt)
DictGet(dict, k, dflt) == IF k \in DOMAIN dict THEN dict[k] ELSE dflt

\* try: int(x) / except: dflt
TryInt(x, dflt) == IF x.kind = "int" THEN x.v ELSE dflt

(***************************************************************************)
(* state_encoder.py                                                        *)
(***************************************************************************)
DIRECTION_TO_ID == (-1 :> 0) @@ (0 :> 1) @@ (1 :> 2)

ID_TO_DIRECTION ==
    [i \in {DIRECTION_TO_ID[k] : k \in DOMAIN DIRECTION_TO_ID} |->
        CHOOSE k \in DOMAIN DIRECTION_TO_ID : DIRECTION_TO_ID[k] = i]

POP_TREND_TO_ID == (-1 :> 0) @@ (0 :> 1) @@ (1 :> 2)

\* encode_direction with the ids of down and up exchanged
encode_direction_m(direction) ==
    LET d == TryInt(direction, 0)
    IN  2 - DictGet(DIRECTION_TO_ID, d, 1)

encode_direction(direction) ==
    LET d == TryInt(direction, 0)
    IN  DictGet(DIRECTION_TO_ID, d, 1)

\* decode_direction looking the id up in the forward mapping
decode_direction_m(state_id) ==
    LET s == TryInt(state_id, 1)
    IN  DictGet(DIRECTION_TO_ID, s, 0)

decode_direction(state_id) ==
    LET s == TryInt(state_id, 1)
    IN  DictGet(ID_TO_DIRECTION, s, 0)

\* encode_rate_level without the upper clip
encode_rate_level_m(level) ==
    LET x  == TryInt(level, 1)
        x1 == IF x < 0 THEN 0 ELSE x
    IN  x1

encode_rate_level(level) ==
    LET x  == TryInt(level, 1)
        x1 == IF x < 0 THEN 0 ELSE x
        x2 == IF x1 > 2 THEN 2 ELSE x1
    IN  x2

encode_pop_trend(trend) ==
    LET t == TryInt(trend, 0)
    IN  DictGet(POP_TREND_TO_ID, t, 1)

\* encode_state with the direction weighted 3 instead of 9
encode_state_m(direction, rate_level, pop_trend) ==
    LET dir_id  == encode_direction(direction)
        rate_id == encode_rate_level(rate_level)
        pop_id  == encode_pop_trend(pop_trend)
    IN  dir_id * 3 + rate_id * 3 + pop_id

encode_state(direction, rate_level, pop_trend) ==
    LET dir_id  == encode_direction(direction)
        rate_id == encode_rate_level(rate_level)
        pop_id  == encode_pop_trend(pop_trend)
    IN  dir_id * 9 + rate_id * 3 + pop_id

(***************************************************************************)
(* The feature table                                                       *)
(***************************************************************************)
\* Values a table row may hold.  2 is a direction outside -1/0/1.
DirVals == {-1, 0, 1, 2}
\* Directions of the tables used for training.
TrainDirVals == {-1, 1}
\* (rate_level, pop_trend) of a month
MacroVals == {<<0, -1>>, <<2, 1>>}

\* 'ym' of row i counted in months (year * 12 + month - 1); the first row is
\* November 2023 and the rows are consecutive months.
FirstYm == 2023 * 12 + 10
YmOf(i) == FirstYm + i

RowVals == {[direction |-> d, rate_level |-> m[1], pop_trend |-> m[2]] :
                d \in DirVals, m \in MacroVals}

Tables == UNION {[1..n -> RowVals] : n \in 0..MaxRows}

\* Tables for training and rollouts: the macro columns are the same in every
\* month, the directions vary.
SmallRowVals == {r \in RowVals : r.rate_level = 2 /\ r.pop_trend = 1}
SmallTables == UNION {[1..n -> SmallRowVals] : n \in 0..MaxTrainRows}

\* Tables for training: months that went down or up.  The rows also carry
\* the month's mean price; the table has no pct_change column.
TrainRowVals == {[direction |-> r.direction, rate_level |-> r.rate_level,
                  pop_trend |-> r.pop_trend, mean_price |-> 100] :
                     r \in {x \in SmallRowVals : x.direction \in TrainDirVals}}
TrainTables == UNION {[1..n -> TrainRowVals] : n \in 0..MaxTrainRows}

(***************************************************************************)
(* environment.py: HousingEnv                                              *)
(***************************************************************************)
Actions == 0..2

num_rows(tbl) == Len(tbl)

max_step_index(tbl) == num_rows(tbl) - 2

\* self.df.loc[idx]
Row(tbl, idx) == tbl[idx + 1]

get_state(tbl, idx) ==
    LET row == Row(tbl, idx)
    IN  encode_state(IntVal(row.direction), IntVal(row.rate_level),
                     IntVal(row.pop_trend))

NoInfo == [kind |-> "none", current_ym |-> 0, next_ym |-> 0,
           true_direction_next |-> 0, true_direction_label |-> ""]

\* {"msg": ...}: the payload of a step on a finished episode
MsgInfo == [kind |-> "msg", current_ym |-> 0, next_ym |-> 0,
            true_direction_next |-> 0, true_direction_label |-> ""]

direction_label(d) ==
    DictGet((-1 :> "down") @@ (0 :> "flat") @@ (1 :> "up"), d, "unknown")

StepInfo(tbl, t) ==
    [kind |-> "step", current_ym |-> YmOf(t), next_ym |-> YmOf(t + 1),
     true_direction_next |-> Row(tbl, t + 1).direction,
     true_direction_label |-> direction_label(Row(tbl, t + 1).direction)]

\* The outcome of a call: the pointer after it, the exception raised ("" for
\* none) and the returned values.
Outcome(idx, raised, state, reward, done, info) ==
    [current_idx |-> idx, raised |-> raised, state |-> state,
     reward |-> reward, done |-> done, info |-> info]

NoState == None

\* reset that rewinds only an environment that was never reset
reset_keep_m(tbl, idx) ==
    IF num_rows(tbl) < 2
    THEN Outcome(idx, "ValueError", NoState, 0, FALSE, NoInfo)
    ELSE LET i == IF idx = None THEN 0 ELSE idx
         IN  Outcome(i, "", get_state(tbl, i), 0, FALSE, NoInfo)

\* reset that accepts a one-row table
reset_min_rows_m(tbl, idx) ==
    IF num_rows(tbl) < 1
    THEN Outcome(idx, "ValueError", NoState, 0, FALSE, NoInfo)
    ELSE Outcome(0, "", get_state(tbl, 0), 0, FALSE, NoInfo)

reset(tbl, idx) ==
    IF num_rows(tbl) < 2
    THEN Outcome(idx, "ValueError", NoState, 0, FALSE, NoInfo)
    ELSE Outcome(0, "", get_state(tbl, 0), 0, FALSE, NoInfo)

\* true_action_id with the flat and up ids exchanged
true_action_id_m(true_direction_next) ==
    IF true_direction_next < 0 THEN 0
    ELSE IF true_direction_next > 0 THEN 1
    ELSE 2

true_action_id(true_direction_next) ==
    IF true_direction_next < 0 THEN 0
    ELSE IF true_direction_next > 0 THEN 2
    ELSE 1

step_reward(action, true_direction_next) ==
    IF action = true_action_id(true_direction_next) THEN 1 ELSE -1

\* done reported one row late
step_done_late_m(tbl, idx) == idx >= max_step_index(tbl) + 2

\* done reported one row early
step_done_m(tbl, idx) == idx >= max_step_index(tbl)

step_done(tbl, idx) == idx >= max_step_index(tbl) + 1

episode_over(tbl, idx) == idx > max_step_index(tbl)

\* a "flat" prediction does not advance the pointer
step_next_idx_m(t, action) == IF action = 1 THEN t ELSE t + 1

step_next_idx(t, action) == t + 1

\* a step on a finished episode scored as a wrong prediction
finished_step_m(tbl, idx) == Outcome(idx, "", get_state(tbl, idx), -1, TRUE, MsgInfo)

\* the return value of a step call on a finished episode
finished_step(tbl, idx) == Outcome(idx, "", get_state(tbl, idx), 0, TRUE, MsgInfo)

\* a step before any reset reported as a finished episode instead of raising
step_unset_m(tbl, idx, action) ==
    IF idx = None
    THEN Outcome(idx, "", NoState, 0, TRUE, MsgInfo)
    ELSE IF episode_over(tbl, idx)
    THEN finished_step(tbl, idx)
    ELSE LET t      == idx
             t_next == step_next_idx(t, action)
             true_direction_next == Row(tbl, t_next).direction
         IN  Outcome(t_next, "", get_state(tbl, t_next),
                     step_reward(action, true_direction_next),
                     step_done(tbl, t_next), StepInfo(tbl, t))

step(tbl, idx, action) ==
    IF idx = None
    THEN Outcome(idx, "RuntimeError", NoState, 0, FALSE, NoInfo)
    ELSE IF episode_over(tbl, idx)
    THEN finished_step(tbl, idx)
    ELSE LET t      == idx
             t_next == step_next_idx(t, action)
             true_direction_next == Row(tbl, t_next).direction
         IN  Outcome(t_next, "", get_state(tbl, t_next),
                     step_reward(action, true_direction_next),
                     step_done(tbl, t_next), StepInfo(tbl, t))

(***************************************************************************)
(* qlearning.py: arithmetic and the value table                            *)
(***************************************************************************)
num_states == 27
num_actions == 3
States == 0..(num_states - 1)

RECURSIVE Pow(_, _)
Pow(b, e) == IF e = 0 THEN 1 ELSE b * Pow(b, e - 1)

\* alpha = alpha2 / 2, gamma = gamma2 / 2 and every table entry v is held as
\* the integer v * QScale.  An update divides by 4, and no run makes more
\* than MaxEpisodes * (MaxTrainRows - 1) updates, so the arithmetic is exact.
QScale == Pow(4, MaxEpisodes * MaxTrainRows + 1)

\* np.zeros((num_states, num_actions))
QZero == [s \in States |-> [a \in 0..(num_actions - 1) |-> 0]]

\* np.max(row)
RowMax(row) == CHOOSE m \in {row[a] : a \in DOMAIN row} :
                   \A a \in DOMAIN row : row[a] <= m

\* np.argmax taken as the last index holding the maximum
argmax_m(row) == CHOOSE a \in DOMAIN row :
                     /\ row[a] = RowMax(row)
                     /\ \A b \in DOMAIN row : b > a => row[b] < row[a]

\* np.argmax(row): the first index holding the maximum
argmax(row) == CHOOSE a \in DOMAIN row :
                   /\ row[a] = RowMax(row)
                   /\ \A b \in DOMAIN row : b < a => row[b] < row[a]

\* the exploration rate taken as the smaller of the floor and the decayed rate
epsilon_scaled_m(eps, ep) ==
    LET a == eps.end2 * Pow(2, ep)
        b == eps.start2 * Pow(eps.decay2, ep)
    IN  IF a >= b THEN b ELSE a

\* epsilon_start = eps.start2 / 2, epsilon_end = eps.end2 / 2,
\* epsilon_decay = eps.decay2 / 2; the value returned is
\* max(epsilon_end, epsilon_start * epsilon_decay ** ep) * 2 ** (ep + 1).
epsilon_scaled(eps, ep) ==
    LET a == eps.end2 * Pow(2, ep)
        b == eps.start2 * Pow(eps.decay2, ep)
    IN  IF a >= b THEN a ELSE b

\* np.random.rand() < epsilon can come out True / False
may_explore(eps, ep) == epsilon_scaled(eps, ep) > 0
may_exploit(eps, ep) == epsilon_scaled(eps, ep) < Pow(2, ep + 1)

\* the update without the value of the next state in the target
q_update_nomax_m(q, state, action, reward, next_state, alpha2, gamma2) ==
    LET td_target2 == 2 * reward * QScale
        td_error2  == td_target2 - 2 * q[state][action]
    IN  [q EXCEPT ![state][action] = q[state][action] + (alpha2 * td_error2) \div 4]

\* the update written into the row of the next state
q_update_cell_m(q, state, action, reward, next_state, alpha2, gamma2) ==
    LET best_next == RowMax(q[next_state])
        td_target2 == 2 * reward * QScale + gamma2 * best_next
        td_error2  == td_target2 - 2 * q[state][action]
    IN  [q EXCEPT ![next_state][action] = q[state][action] + (alpha2 * td_error2) \div 4]

\* the update with the reward left out of the target
q_update_m(q, state, action, reward, next_state, alpha2, gamma2) ==
    LET best_next == RowMax(q[next_state])
        td_target2 == gamma2 * best_next
        td_error2  == td_target2 - 2 * q[state][action]
    IN  [q EXCEPT ![state][action] = q[state][action] + (alpha2 * td_error2) \div 4]

\* Q[state, action] += alpha * (reward + gamma * max(Q[next_state]) - Q[state, action])
q_update(q, state, action, reward, next_state, alpha2, gamma2) ==
    LET best_next == RowMax(q[next_state])
        \* 2 * td_target and 2 * td_error
        td_target2 == 2 * reward * QScale + gamma2 * best_next
        td_error2  == td_target2 - 2 * q[state][action]
    IN  [q EXCEPT ![state][action] = q[state][action] + (alpha2 * td_error2) \div 4]

NoParams == [episodes |-> 0, alpha2 |-> 0, gamma2 |-> 0,
             eps |-> [start2 |-> 0, end2 |-> 0, decay2 |-> 0], max_steps |-> 0]
NoTrain == [ep |-> 0, state |-> NoState, done |-> FALSE, total_reward |-> 0,
            explored |-> FALSE, episode_rewards |-> <<>>, updates |-> 0,
            log |-> <<>>]
NoGreedy == [state |-> NoState, done |-> FALSE, total_reward |-> 0, steps |-> 0,
             history |-> <<>>]

(***************************************************************************)
(* Calendar months and real numbers                                        *)
(***************************************************************************)
\* The 'YYYY-MM' string of the month counted as year * 12 + month - 1.
YmLabel(m) == [year |-> m \div 12, month |-> (m % 12) + 1]

\* the 'ym' column of row i
ym_of_row(i) == YmLabel(YmOf(i))

\* pd.Period(label, freq="M"): months since January 1970
period_of(label) == (label.year - 1970) * 12 + (label.month - 1)

\* months numbered 0..11 when formatting
strftime_ym_m(period) == [year |-> 1970 + (period \div 12), month |-> period % 12]

\* period.strftime("%Y-%m")
strftime_ym(period) == [year |-> 1970 + (period \div 12), month |-> (period % 12) + 1]

\* A float holding the fraction num / den (den > 0), or NaN.
Rat(n, d) == [num |-> n, den |-> d]
NaN == Rat(0, 0)

\* np.isfinite(x)
isfinite(x) == x.den # 0

RatAdd(x, y) ==
    IF x.den = y.den THEN Rat(x.num + y.num, x.den)
    ELSE Rat(x.num * y.den + y.num * x.den, x.den * y.den)

RECURSIVE RatSum(_, _)
\* the sum of vals[i] over the indices i in idxs
RatSum(vals, idxs) ==
    IF idxs = {} THEN Rat(0, 1)
    ELSE LET i == CHOOSE j \in idxs : \A k \in idxs : j <= k
         IN  RatAdd(vals[i], RatSum(vals, idxs \ {i}))

\* A price: base * (1 + returns[1]) * ... * (1 + returns[k]), the product
\* kept as its factors in the order they were multiplied in.
Price(base) == [base |-> base, returns |-> <<>>]

\* current_price * (1.0 + applied_return)
price_times(price, applied_return) ==
    [price EXCEPT !.returns = Append(price.returns, applied_return)]

(***************************************************************************)
(* preprocess.py: add_price_direction                                      *)
(***************************************************************************)
\* _dir_from_pct with threshold = 0.01
dir_from_pct(p) ==
    IF ~isfinite(p) THEN 0
    ELSE IF 100 * p.num <= -p.den THEN -1
    ELSE IF 100 * p.num >= p.den THEN 1
    ELSE 0

(***************************************************************************)
(* api.py: metrics and forecasts                                           *)
(***************************************************************************)
\* sum(1 for h in history if h["reward"] > 0)
correct_count(history) ==
    Cardinality({i \in 1..Len(history) : history[i].reward > 0})

\* sum(1 for h in history if h["reward"] < 0)
wrong_count(history) ==
    Cardinality({i \in 1..Len(history) : history[i].reward < 0})

\* correct / (correct + wrong) if (correct + wrong) > 0 else 0.0
accuracy(correct, wrong) ==
    IF correct + wrong > 0 THEN Rat(correct, correct + wrong) ELSE Rat(0, 1)

NoLabel == [year |-> 0, month |-> 0]

NoPrediction == [raised |-> "", last_ym |-> NoLabel, next_ym |-> NoLabel,
                 action_id |-> None, direction_label |-> ""]

\* ["down", "flat", "up"][best_action]
action_direction_label(best_action) == <<"down", "flat", "up">>[best_action + 1]

\* a one-step forecast that depends on how often it was called before
predict_counting_m(tbl, q) ==
    IF num_rows(tbl) = 0
    THEN [NoPrediction EXCEPT !.raised = "IndexError"]
    ELSE LET last_idx == num_rows(tbl) - 1
             last_row == Row(tbl, last_idx)
             s == encode_state(IntVal(last_row.direction),
                               IntVal(last_row.rate_level),
                               IntVal(last_row.pop_trend))
             best_action == (argmax(q[s]) + fc.one_calls) % 3
             last_ym == ym_of_row(last_idx)
         IN  [raised |-> "", last_ym |-> last_ym,
              next_ym |-> strftime_ym(period_of(last_ym) + 1),
              action_id |-> best_action,
              direction_label |-> action_direction_label(best_action)]

\* the one-step forecast made from the first row of the table
predict_first_row_m(tbl, q) ==
    IF num_rows(tbl) = 0
    THEN [NoPrediction EXCEPT !.raised = "IndexError"]
    ELSE LET last_row == Row(tbl, 0)
             s == encode_state(IntVal(last_row.direction),
                               IntVal(last_row.rate_level),
                               IntVal(last_row.pop_trend))
             best_action == argmax(q[s])
             last_ym == ym_of_row(0)
         IN  [raised |-> "", last_ym |-> last_ym,
              next_ym |-> strftime_ym(period_of(last_ym) + 1),
              action_id |-> best_action,
              direction_label |-> action_direction_label(best_action)]

\* _predict_next_month_direction(state_df, Q); state_df.iloc[-1] raises on an
\* empty table
predict_next_month_direction(tbl, q) ==
    IF num_rows(tbl) = 0
    THEN [NoPrediction EXCEPT !.raised = "IndexError"]
    ELSE LET last_idx == num_rows(tbl) - 1
             last_row == Row(tbl, last_idx)
             s == encode_state(IntVal(last_row.direction),
                               IntVal(last_row.rate_level),
                               IntVal(last_row.pop_trend))
             best_action == argmax(q[s])
             last_ym == ym_of_row(last_idx)
             period == period_of(last_ym)
         IN  [raised |-> "", last_ym |-> last_ym,
              next_ym |-> strftime_ym(period + 1),
              action_id |-> best_action,
              direction_label |-> action_direction_label(best_action)]

\* df.loc[df["direction"] == d, "pct_change"].mean(): NaN entries are
\* skipped, and the mean of nothing is NaN
hist_mean(tbl, d) ==
    LET sel == {i \in 1..Len(tbl) :
                   tbl[i].direction = d /\ isfinite(tbl[i].pct_change)}
        total == RatSum([i \in 1..Len(tbl) |-> tbl[i].pct_change], sel)
    IN  IF sel = {} THEN NaN
        ELSE Rat(total.num, total.den * Cardinality(sel))

\* "pct_change" in df.columns
has_pct_change(tbl) == "pct_change" \in DOMAIN tbl[1]

\* up_mean / flat_mean / down_mean before the np.isfinite checks
raw_mean(tbl, d) == IF has_pct_change(tbl) THEN hist_mean(tbl, d) ELSE NaN

\* the return applied when the direction has no finite historical mean
default_return(d) ==
    IF d = 1 THEN Rat(1, 100)
    ELSE IF d = 0 THEN Rat(0, 1)
    ELSE Rat(-1, 100)

\* the historical means used without the np.isfinite checks
direction_mean_m(tbl, d) == raw_mean(tbl, d)

\* up_mean / flat_mean / down_mean after the np.isfinite checks
direction_mean(tbl, d) ==
    LET m == raw_mean(tbl, d)
    IN  IF ~isfinite(m) THEN default_return(d) ELSE m

action_to_direction == (0 :> -1) @@ (1 :> 0) @@ (2 :> 1)

\* the scenario has 12 steps: range(1, 13)
Horizon == 12

direction_label_map == (-1 :> "down") @@ (0 :> "flat") @@ (1 :> "up")
action_label_map == (0 :> "predict down") @@ (1 :> "predict flat") @@ (2 :> "predict up")

RECURSIVE scenario_loop(_, _, _, _, _, _, _, _, _)
\* the passes k, k + 1, ..., Horizon of the for loop (k is its variable
\* step); besides the columns of the source every record keeps s, the state
\* index looked up
scenario_loop(q, means, rate_level, pop_trend, k, current_direction, current_price, period, records) ==
    IF k > Horizon THEN records
    ELSE LET s == encode_state(IntVal(current_direction), IntVal(rate_level),
                               IntVal(pop_trend))
             best_action == argmax(q[s])
             predicted_direction == action_to_direction[best_action]
             applied_return == IF predicted_direction = 1 THEN means[1]
                               ELSE IF predicted_direction = 0 THEN means[0]
                               ELSE means[-1]
             new_price == price_times(current_price, applied_return)
             new_period == period + 1
             record == [step |-> k,
                        ym |-> strftime_ym(new_period),
                        predicted_direction |-> predicted_direction,
                        predicted_direction_label |->
                            direction_label_map[predicted_direction],
                        predicted_action_label |-> action_label_map[best_action],
                        applied_return |-> applied_return,
                        scenario_price |-> new_price,
                        s |-> s]
         IN  scenario_loop(q, means, rate_level, pop_trend, k + 1,
                           predicted_direction, new_price, new_period,
                           Append(records, record))

\* the scenario holding the macro columns at the values of the first row
simulate_first_macro_m(tbl, q) ==
    IF num_rows(tbl) = 0 THEN <<>>
    ELSE LET means == [d \in {-1, 0, 1} |-> direction_mean(tbl, d)]
             last_idx == num_rows(tbl) - 1
             last_row == Row(tbl, last_idx)
             period == period_of(ym_of_row(last_idx))
         IN  scenario_loop(q, means, Row(tbl, 0).rate_level, Row(tbl, 0).pop_trend,
                           1, last_row.direction, Price(last_row.mean_price),
                           period, <<>>)

\* simulate_future_12months(state_df, Q): the rows of the returned frame
simulate_future_12months(tbl, q) ==
    IF num_rows(tbl) = 0 THEN <<>>
    ELSE LET means == [d \in {-1, 0, 1} |-> direction_mean(tbl, d)]
             last_idx == num_rows(tbl) - 1
             last_row == Row(tbl, last_idx)
             period == period_of(ym_of_row(last_idx))
         IN  scenario_loop(q, means, last_row.rate_level, last_row.pop_trend,
                           1, last_row.direction, Price(last_row.mean_price),
                           period, <<>>)

NoMetrics == [total_reward |-> 0, steps |-> None, correct |-> 0, wrong |-> 0,
              accuracy |-> Rat(0, 1), future |-> NoPrediction]

\* fc.one / fc.prev_one: what the last two calls of
\* _predict_next_month_direction returned; fc.scenario: what the last call
\* of simulate_future_12months returned
NoForecast == [one_calls |-> 0, one |-> NoPrediction, prev_one |-> NoPrediction,
               scenario_calls |-> 0, scenario |-> <<>>]

NoEps == [sch |-> [start2 |-> 0, end2 |-> 0, decay2 |-> 0], k |-> None,
          prev |-> 0, cur |-> 0]

(***************************************************************************)
(* Specification Spec: a caller driving one HousingEnv through reset/step  *)
(***************************************************************************)
NoCall == [op |-> "none", action |-> 0, idx_before |-> None,
           done_before |-> FALSE]
NoRet == Outcome(None, "", NoState, 0, FALSE, NoInfo)
NoOthers == [b \in Actions |-> NoRet]

EncIdle == <<NonInt, NonInt, NonInt>>
NoEnc == [op |-> "none", arg |-> 0, val |-> 0]

\* HousingEnv.__init__
EnvInit ==
    /\ df \in Tables
    /\ current_idx = None
    /\ call = NoCall
    /\ ret = NoRet
    /\ ep_done = FALSE
    /\ extra = 0
    /\ reset_from = "none"
    /\ twin = NoRet
    /\ others = NoOthers

EncUnused ==
    /\ enc_in = EncIdle
    /\ enc_out = NoEnc

RLUnused ==
    /\ Q = QZero
    /\ pc = "idle"
    /\ params = NoParams
    /\ tr = NoTrain
    /\ g = NoGreedy

ApiUnused ==
    /\ metrics = NoMetrics
    /\ fc = NoForecast
    /\ eps_k = NoEps

Init ==
    /\ EnvInit
    /\ EncUnused
    /\ RLUnused
    /\ ApiUnused

\* Where the environment stands: never reset, inside an episode, finished, or
\* stepped again after finishing.
StateKind ==
    IF current_idx = None THEN "never"
    ELSE IF ~ep_done THEN "mid"
    ELSE IF extra = 0 THEN "finished"
    ELSE "overrun"

\* env.reset(); the twin is a newly constructed environment reset at the same time
EnvReset ==
    LET r == reset(df, current_idx)
    IN  /\ call' = [op |-> "reset", action |-> 0, idx_before |-> current_idx,
                    done_before |-> ep_done]
        /\ ret' = r
        /\ current_idx' = r.current_idx
        /\ ep_done' = IF r.raised = "" THEN FALSE ELSE ep_done
        /\ extra' = IF r.raised = "" THEN 0 ELSE extra
        /\ reset_from' = IF r.raised # "" THEN reset_from ELSE StateKind
        /\ twin' = reset(df, None)
        /\ others' = NoOthers
        /\ UNCHANGED df

\* env.step(a); the twin receives the same call
EnvStep(a) ==
    LET r == step(df, current_idx, a)
    IN  /\ call' = [op |-> "step", action |-> a, idx_before |-> current_idx,
                    done_before |-> ep_done]
        /\ ret' = r
        /\ current_idx' = r.current_idx
        /\ ep_done' = (ep_done \/ (r.raised = "" /\ r.done))
        /\ extra' = IF ep_done THEN extra + 1 ELSE extra
        /\ UNCHANGED reset_from
        /\ twin' = step(df, twin.current_idx, a)
        /\ others' = [b \in Actions |-> step(df, current_idx, b)]
        /\ UNCHANGED df

Reset == EnvReset /\ UNCHANGED <<encVars, apiVars, rlVars>>

Step(a) ==
    /\ ep_done => extra < MaxExtraSteps
    /\ EnvStep(a)
    /\ UNCHANGED <<encVars, apiVars, rlVars>>

StepAny == \E a \in Actions : Step(a)

Next == Reset \/ StepAny

Spec == Init /\ [][Next]_vars

(***************************************************************************)
(* qlearning.py: train_q_learning and run_greedy_policy                    *)
(***************************************************************************)
\* train_q_learning, lines 37-38
TrainStart ==
    /\ pc = "idle"
    /\ Q' = QZero
    /\ tr' = NoTrain
    /\ pc' = "t_for"
    /\ UNCHANGED <<envVars, encVars, apiVars, params, g>>

\* lines 40-46: the next episode begins; env.reset() may raise
TrainEpisodeStart ==
    /\ pc = "t_for"
    /\ tr.ep < params.episodes
    /\ EnvReset
    /\ LET r == reset(df, current_idx)
       IN  IF r.raised # ""
           THEN /\ pc' = "t_raised"
                /\ UNCHANGED tr
           ELSE /\ pc' = "t_while"
                /\ tr' = [tr EXCEPT !.state = r.state, !.done = FALSE,
                                    !.total_reward = 0,
                                    !.log = Append(tr.log, <<>>)]
    /\ UNCHANGED <<encVars, apiVars, Q, params, g>>

\* lines 48-65: one pass of the while loop
TrainStep(explore, a) ==
    /\ pc = "t_while"
    /\ ~tr.done
    /\ IF explore
       THEN may_explore(params.eps, tr.ep)
       ELSE may_exploit(params.eps, tr.ep) /\ a = argmax(Q[tr.state])
    /\ EnvStep(a)
    /\ LET r == step(df, current_idx, a)
       IN  /\ Q' = q_update(Q, tr.state, a, r.reward, r.state,
                            params.alpha2, params.gamma2)
           /\ tr' = [tr EXCEPT !.state = r.state, !.done = r.done,
                               !.total_reward = tr.total_reward + r.reward,
                               !.explored = explore,
                               !.updates = tr.updates + 1,
                               !.log[Len(tr.log)] = Append(tr.log[Len(tr.log)], r.reward)]
    /\ UNCHANGED <<encVars, apiVars, pc, params, g>>

TrainStepAny == \E explore \in BOOLEAN, a \in 0..(num_actions - 1) : TrainStep(explore, a)

\* the end of an episode recording the last step's reward as its total
TrainEpisodeEnd_m ==
    /\ pc = "t_while"
    /\ tr.done
    /\ tr' = [tr EXCEPT !.episode_rewards = Append(tr.episode_rewards, ret.reward),
                        !.ep = tr.ep + 1]
    /\ pc' = "t_for"
    /\ UNCHANGED <<envVars, encVars, apiVars, Q, params, g>>

\* lines 48 and 67: the episode is over
TrainEpisodeEnd ==
    /\ pc = "t_while"
    /\ tr.done
    /\ tr' = [tr EXCEPT !.episode_rewards = Append(tr.episode_rewards, tr.total_reward),
                        !.ep = tr.ep + 1]
    /\ pc' = "t_for"
    /\ UNCHANGED <<envVars, encVars, apiVars, Q, params, g>>

\* lines 40 and 72: all episodes done
TrainReturn ==
    /\ pc = "t_for"
    /\ tr.ep >= params.episodes
    /\ pc' = "t_returned"
    /\ UNCHANGED <<envVars, encVars, apiVars, Q, params, tr, g>>

\* run_greedy_policy, lines 92-98; env.reset() may raise
GreedyStart ==
    /\ pc \in {"idle", "t_returned"}
    /\ EnvReset
    /\ LET r == reset(df, current_idx)
       IN  IF r.raised # ""
           THEN /\ pc' = "g_raised"
                /\ UNCHANGED g
           ELSE /\ pc' = "g_while"
                /\ g' = [state |-> r.state, done |-> FALSE, total_reward |-> 0,
                         steps |-> 0, history |-> <<>>]
    /\ UNCHANGED <<encVars, apiVars, Q, params, tr>>

\* the rollout loop ignoring the done flag
greedy_continues_m(done, steps, max_steps) == steps < max_steps

\* the rollout loop allowing one pass beyond the cap
greedy_continues_le_m(done, steps, max_steps) == ~done /\ steps <= max_steps

greedy_continues(done, steps, max_steps) == ~done /\ steps < max_steps

\* lines 100-118: one pass of the while loop
GreedyIter ==
    /\ pc = "g_while"
    /\ greedy_continues(g.done, g.steps, params.max_steps)
    /\ LET action == argmax(Q[g.state])
           r == step(df, current_idx, action)
           step_info == [step |-> g.steps,
                         current_ym |-> r.info.current_ym,
                         next_ym |-> r.info.next_ym,
                         action_id |-> action,
                         true_direction_label |-> r.info.true_direction_label,
                         reward |-> r.reward]
       IN  /\ EnvStep(action)
           /\ g' = [state |-> r.state, done |-> r.done,
                    total_reward |-> g.total_reward + r.reward,
                    steps |-> g.steps + 1,
                    history |-> Append(g.history, step_info)]
    /\ UNCHANGED <<encVars, apiVars, Q, pc, params, tr>>

\* lines 100 and 120: the loop ends and the function returns
GreedyReturn ==
    /\ pc = "g_while"
    /\ ~greedy_continues(g.done, g.steps, params.max_steps)
    /\ pc' = "g_returned"
    /\ UNCHANGED <<envVars, encVars, apiVars, Q, params, tr, g>>

(***************************************************************************)
(* api.py: what train_rl_for_state_df does after the rollout, and the      *)
(* forecast calls                                                          *)
(***************************************************************************)
\* fc after one more call of _predict_next_month_direction(df, Q)
after_predict(f, tbl, q) ==
    [f EXCEPT !.one_calls = f.one_calls + 1, !.prev_one = f.one,
              !.one = predict_next_month_direction(tbl, q)]

\* train_rl_for_state_df, lines 293-311
Evaluate ==
    /\ pc = "g_returned"
    /\ LET correct == correct_count(g.history)
           wrong == wrong_count(g.history)
           future_pred == predict_next_month_direction(df, Q)
       IN  /\ metrics' = [total_reward |-> g.total_reward, steps |-> g.steps,
                          correct |-> correct, wrong |-> wrong,
                          accuracy |-> accuracy(correct, wrong),
                          future |-> future_pred]
           /\ fc' = after_predict(fc, df, Q)
    /\ pc' = "m_done"
    /\ UNCHANGED <<envVars, encVars, Q, params, tr, g, eps_k>>

\* _predict_next_month_direction(df, Q)
PredictNext ==
    /\ fc.one_calls < MaxForecastCalls
    /\ fc' = after_predict(fc, df, Q)
    /\ UNCHANGED <<envVars, encVars, rlVars, metrics, eps_k>>

\* simulate_future_12months(df, Q)
SimulateFuture ==
    /\ fc.scenario_calls < MaxForecastCalls
    /\ fc' = [fc EXCEPT !.scenario_calls = fc.scenario_calls + 1,
                        !.scenario = simulate_future_12months(df, Q)]
    /\ UNCHANGED <<envVars, encVars, rlVars, metrics, eps_k>>

\* app_streamlit.py: the scenario is drawn once training has been evaluated
AppSimulate ==
    /\ pc = "m_done"
    /\ fc.scenario_calls = 0
    /\ SimulateFuture

\* one further one-step forecast with the trained table
AppPredict ==
    /\ pc = "m_done"
    /\ fc.scenario_calls > 0
    /\ fc.one_calls = 1
    /\ PredictNext

(***************************************************************************)
(* Specification SpecGreedy: run_greedy_policy on an environment in any    *)
(* state, for a given value table and step cap                             *)
(***************************************************************************)
\* Value tables handed to the rollout: all zero, or preferring action
\* (s + k) mod 3 in state s.
QTables == {QZero} \cup
           {[s \in States |-> [a \in 0..(num_actions - 1) |->
                IF a = (s + k) % 3 THEN QScale ELSE 0]] : k \in 0..2}

\* An environment that earlier callers may have used: never reset, or left
\* at any row of an episode.
InitGreedy ==
    /\ df \in SmallTables
    /\ current_idx \in IF Len(df) < 2 THEN {None} ELSE {None} \cup (0..(Len(df) - 1))
    /\ call = NoCall
    /\ ret = NoRet
    /\ ep_done = (current_idx # None /\ current_idx = Len(df) - 1)
    /\ extra = 0
    /\ reset_from = "none"
    /\ twin = NoRet
    /\ others = NoOthers
    /\ EncUnused
    /\ Q \in QTables
    /\ pc = "idle"
    /\ params \in {[NoParams EXCEPT !.max_steps = m] : m \in 0..(MaxTrainRows + 1)}
    /\ tr = NoTrain
    /\ g = NoGreedy
    /\ ApiUnused

NextGreedy == GreedyStart \/ GreedyIter \/ GreedyReturn

SpecGreedy == InitGreedy /\ [][NextGreedy]_vars

(***************************************************************************)
(* Specification SpecFc: the two forecast functions called on a table      *)
(* built by build_state_df_for_apt, for a given value table                *)
(***************************************************************************)
\* pct_change of a month: -2%, -0.5%, +0.5%, +3%
PctVals == {Rat(-4, 200), Rat(-1, 200), Rat(1, 200), Rat(6, 200)}

\* (rate_level, pop_trend) of the months before the last one
EarlierMacro == <<1, 0>>

\* a row as add_price_direction and add_macro_levels leave it
FcRow(p, m) ==
    [direction |-> dir_from_pct(p), rate_level |-> m[1], pop_trend |-> m[2],
     mean_price |-> 200, pct_change |-> p]

\* The first month has no pct_change; the macro columns of the last month
\* differ from those of the months before.
FcTables ==
    {<<>>} \cup
    UNION {{[i \in 1..n |-> FcRow(IF i = 1 THEN NaN ELSE ps[i],
                                  IF i = n THEN m ELSE EarlierMacro)] :
               ps \in [1..n -> PctVals], m \in MacroVals} : n \in 1..MaxFcRows}

\* Value tables handed to the forecasts: those of the rollout, and one that
\* in a state of direction id i prefers action (i + 1) mod 3, so that the
\* predicted direction changes at every step of the scenario.
FcQTables == QTables \cup
             {[s \in States |-> [a \in 0..(num_actions - 1) |->
                  IF a = ((s \div 9) + 1) % 3 THEN QScale ELSE 0]]}

InitFc ==
    /\ df \in FcTables
    /\ current_idx = None
    /\ call = NoCall
    /\ ret = NoRet
    /\ ep_done = FALSE
    /\ extra = 0
    /\ reset_from = "none"
    /\ twin = NoRet
    /\ others = NoOthers
    /\ EncUnused
    /\ Q \in FcQTables
    /\ pc = "idle"
    /\ params = NoParams
    /\ tr = NoTrain
    /\ g = NoGreedy
    /\ ApiUnused

NextFc == PredictNext \/ SimulateFuture

SpecFc == InitFc /\ [][NextFc]_vars

(***************************************************************************)
(* Specification SpecRL: train_q_learning, then run_greedy_policy, on a    *)
(* newly constructed environment (train_rl_for_state_df); the rollout may  *)
(* also be run without training                                            *)
(***************************************************************************)
EpsSchedules == {[start2 |-> 2, end2 |-> 0, decay2 |-> 1],
                 [start2 |-> 0, end2 |-> 0, decay2 |-> 2]}

TrainParams ==
    {[episodes |-> e, alpha2 |-> ag[1], gamma2 |-> ag[2], eps |-> sch,
      max_steps |-> MaxTrainRows + 1] :
        e \in 0..MaxEpisodes, ag \in {<<1, 1>>, <<2, 0>>}, sch \in EpsSchedules}

InitRL ==
    /\ df \in TrainTables
    /\ current_idx = None
    /\ call = NoCall
    /\ ret = NoRet
    /\ ep_done = FALSE
    /\ extra = 0
    /\ reset_from = "none"
    /\ twin = NoRet
    /\ others = NoOthers
    /\ EncUnused
    /\ Q = QZero
    /\ pc = "idle"
    /\ params \in TrainParams
    /\ tr = NoTrain
    /\ g = NoGreedy
    /\ ApiUnused

NextRL ==
    \/ TrainStart
    \/ TrainEpisodeStart
    \/ TrainStepAny
    \/ TrainEpisodeEnd
    \/ TrainReturn
    \/ GreedyStart
    \/ GreedyIter
    \/ GreedyReturn
    \/ Evaluate
    \/ AppSimulate
    \/ AppPredict

SpecRL == InitRL /\ [][NextRL]_vars


(***************************************************************************)
(* Specification SpecConv: train_q_learning on a table whose rows are all  *)
(* alike, so that a single state is visited; the loops of the function     *)
(* keep running until it returns                                           *)
(***************************************************************************)
ConvRowVals == {r \in SmallRowVals : r.direction \in {-1, 0, 1}}

ConvTables == UNION {{[i \in 1..n |-> r] : r \in ConvRowVals} : n \in 2..MaxTrainRows}

\* alpha in {1/2, 1}, gamma in {0, 1/2}
ConvParams ==
    {[episodes |-> e, alpha2 |-> a, gamma2 |-> c, eps |-> sch,
      max_steps |-> MaxTrainRows + 1] :
        e \in 0..MaxEpisodes, a \in 1..2, c \in 0..1, sch \in EpsSchedules}

InitConv ==
    /\ df \in ConvTables
    /\ current_idx = None
    /\ call = NoCall
    /\ ret = NoRet
    /\ ep_done = FALSE
    /\ extra = 0
    /\ reset_from = "none"
    /\ twin = NoRet
    /\ others = NoOthers
    /\ EncUnused
    /\ Q = QZero
    /\ pc = "idle"
    /\ params \in ConvParams
    /\ tr = NoTrain
    /\ g = NoGreedy
    /\ ApiUnused

NextConv ==
    \/ TrainStart
    \/ TrainEpisodeStart
    \/ TrainStepAny
    \/ TrainEpisodeEnd
    \/ TrainReturn

SpecConv == InitConv /\ [][NextConv]_vars /\ WF_vars(NextConv)

(***************************************************************************)
(* Specification SpecEnc: the encoder functions applied to bounded inputs  *)
(***************************************************************************)
EncVals == {IntVal(i) : i \in (-EncMag)..(EncMag + 1)} \cup {NonInt}

InitEnc ==
    /\ df = <<>>
    /\ current_idx = None
    /\ call = NoCall
    /\ ret = NoRet
    /\ ep_done = FALSE
    /\ extra = 0
    /\ reset_from = "none"
    /\ twin = NoRet
    /\ others = NoOthers
    /\ enc_in \in EncVals \X EncVals \X EncVals
    /\ enc_out = NoEnc
    /\ RLUnused
    /\ ApiUnused

\* s = encode_state(d, r, p)
EncodeState ==
    /\ enc_out' = [op |-> "encode_state", arg |-> 0,
                   val |-> encode_state(enc_in[1], enc_in[2], enc_in[3])]
    /\ UNCHANGED <<envVars, enc_in, rlVars, apiVars>>

\* decode_direction(s) for the s of the preceding encode_state call
DecodeState ==
    /\ enc_out.op = "encode_state"
    /\ enc_out' = [op |-> "decode_state", arg |-> enc_out.val,
                   val |-> decode_direction(IntVal(enc_out.val))]
    /\ UNCHANGED <<envVars, enc_in, rlVars, apiVars>>

\* decode_direction(encode_direction(d))
DecodeDirId ==
    /\ enc_out' = [op |-> "decode_dir_id", arg |-> encode_direction(enc_in[1]),
                   val |-> decode_direction(IntVal(encode_direction(enc_in[1])))]
    /\ UNCHANGED <<envVars, enc_in, rlVars, apiVars>>

NextEnc == EncodeState \/ DecodeState \/ DecodeDirId

SpecEnc == InitEnc /\ [][NextEnc]_vars

(***************************************************************************)
(* Specification SpecEps: the exploration rate of train_q_learning over    *)
(* successive episodes, for every schedule in halves                       *)
(***************************************************************************)
AllSchedules == {[start2 |-> a, end2 |-> b, decay2 |-> c] :
                    a \in 0..2, b \in 0..2, c \in 0..2}

InitEps ==
    /\ df = <<>>
    /\ current_idx = None
    /\ call = NoCall
    /\ ret = NoRet
    /\ ep_done = FALSE
    /\ extra = 0
    /\ reset_from = "none"
    /\ twin = NoRet
    /\ others = NoOthers
    /\ EncUnused
    /\ RLUnused
    /\ metrics = NoMetrics
    /\ fc = NoForecast
    /\ eps_k \in {[sch |-> sch, k |-> 0, prev |-> 0, cur |-> epsilon_scaled(sch, 0)] :
                     sch \in AllSchedules}

\* line 46 in the next pass of the for loop
EpsNextEpisode ==
    /\ eps_k.k < MaxEpsEpisodes
    /\ eps_k' = [eps_k EXCEPT !.k = eps_k.k + 1, !.prev = eps_k.cur,
                              !.cur = epsilon_scaled(eps_k.sch, eps_k.k + 1)]
    /\ UNCHANGED <<envVars, encVars, rlVars, metrics, fc>>

NextEps == EpsNextEpisode

SpecEps == InitEps /\ [][NextEps]_vars

(***************************************************************************)
(* Claims about the environment (specification Spec)                       *)
(***************************************************************************)
n_rows == Len(df)

\* The last call was a step made while the episode was running.
LiveStep ==
    /\ call.op = "step"
    /\ call.idx_before # None
    /\ ~call.done_before

\* The last call was a step made after the episode had returned done = True.
LateStep == call.op = "step" /\ call.done_before

\* C2 (as stated): after reset the pointer always stays within 0..n-2, and
\* the episode is reported finished when the pointer reaches n-2.
C2_PointerUpToNMinus2 ==
    current_idx # None =>
        /\ current_idx \in 0..(n_rows - 2)
        /\ (current_idx = n_rows - 2 => ep_done)

\* C2 (amended): after reset the pointer always stays within 0..n-1; a step
\* of a running episode reports done = True exactly when it moves the
\* pointer to n-1, and the episode counts as finished exactly from then on.
C2_PointerUpToNMinus1 ==
    current_idx # None =>
        /\ n_rows >= 2
        /\ current_idx \in 0..(n_rows - 1)
        /\ (LiveStep => (ret.done <=> current_idx = n_rows - 1))
        /\ (ep_done <=> current_idx = n_rows - 1)

\* C2 witness: a step has brought the pointer to n-1 and reported done.
C2_Witness ==
    /\ LiveStep
    /\ ret.done
    /\ current_idx = n_rows - 1
    /\ n_rows = 3

\* C3: a step from pointer t of an unfinished episode with action a returns
\* reward +1 if a is the action index of row t+1's direction (down -> 0,
\* flat -> 1, up -> 2) and -1 otherwise; it returns no other reward.
C3_RewardMatchesNextDirection ==
    LiveStep =>
        LET d == df[call.idx_before + 2].direction
        IN  /\ ret.raised = ""
            /\ ret.reward \in {1, -1}
            /\ (d = -1 => (ret.reward = 1 <=> call.action = 0))
            /\ (d = 0 => (ret.reward = 1 <=> call.action = 1))
            /\ (d = 1 => (ret.reward = 1 <=> call.action = 2))

\* C3 witness: a correct "down" prediction at pointer 1 earned +1.
C3_Witness ==
    /\ LiveStep
    /\ call.idx_before = 1
    /\ df[3].direction = -1
    /\ call.action = 0
    /\ ret.reward = 1

\* C7: a step call made after the episode returned done = True is rejected
\* or returns reward 0 with done = True and leaves the pointer unchanged,
\* and differs from a normal terminal step, whose reward is +1 or -1 and
\* whose payload is the step record; this holds for every repeated call.
C7_LateStepIsExplicitNoOp ==
    /\ LateStep =>
          \/ ret.raised # ""
          \/ /\ ret.reward = 0
             /\ ret.done
             /\ current_idx = call.idx_before
             /\ ret.info.kind = "msg"
    /\ (LiveStep /\ ret.done) =>
          /\ ret.raised = ""
          /\ ret.reward \in {1, -1}
          /\ ret.info.kind = "step"

\* C7 witness: the second step call in a row after termination.
C7_Witness ==
    /\ LateStep
    /\ extra = 2
    /\ ret.reward = 0
    /\ ret.done

\* C8: two step calls from the same pointer t of a running episode that
\* differ only in the action leave the same pointer t+1 and return the same
\* next_state, done flag and info payload; only the reward may differ.
C8_ActionOnlyAffectsReward ==
    LiveStep =>
        /\ current_idx = call.idx_before + 1
        /\ \A b \in Actions :
              /\ others[b].current_idx = current_idx
              /\ others[b].raised = ret.raised
              /\ others[b].state = ret.state
              /\ others[b].done = ret.done
              /\ others[b].info = ret.info

\* C8 witness: a step whose reward would have differed under another action.
C8_Witness ==
    /\ LiveStep
    /\ \E b \in Actions : b # call.action /\ others[b].reward # ret.reward

\* C9: from every reachable state of an environment on a table with n >= 2
\* rows, reset sets the pointer to 0 and returns encode_state of row 0, and
\* every call of the episode that follows returns what the same call
\* returns in the first episode of a newly constructed environment.
C9_ResetRestartsEpisode ==
    /\ (call.op = "reset" /\ n_rows >= 2) =>
          /\ ret.raised = ""
          /\ current_idx = 0
          /\ ret.state = encode_state(IntVal(df[1].direction),
                                      IntVal(df[1].rate_level),
                                      IntVal(df[1].pop_trend))
    /\ (call.op \in {"reset", "step"} /\ current_idx # None) =>
          /\ twin.current_idx = current_idx
          /\ twin.raised = ret.raised
          /\ twin.state = ret.state
          /\ twin.reward = ret.reward
          /\ twin.done = ret.done
          /\ twin.info = ret.info

\* C9 witness: an episode restarted after steps on a finished episode has
\* run to its end.
C9_Witness ==
    /\ reset_from = "overrun"
    /\ LiveStep
    /\ ret.done
    /\ ret.reward = 1

(***************************************************************************)
(* Claims about the encoder (specification SpecEnc)                        *)
(***************************************************************************)
InDomain(x, dom) == x.kind = "int" /\ x.v \in dom

DirDomain == {-1, 0, 1}
RateDomain == {0, 1, 2}
PopDomain == {-1, 0, 1}

AllInDomain ==
    /\ InDomain(enc_in[1], DirDomain)
    /\ InDomain(enc_in[2], RateDomain)
    /\ InDomain(enc_in[3], PopDomain)

\* the three components of a state id
DirPart(s) == s \div 9
RatePart(s) == (s \div 3) % 3
PopPart(s) == s % 3

\* C4: for all 27 in-domain combinations encode_state returns
\* dir_id*9 + rate_id*3 + pop_id (down=0, flat=1, up=2 for direction and
\* population trend), an integer in 0..26, and no other in-domain
\* combination yields the same id.
C4_EncodeStateFormula ==
    (enc_out.op = "encode_state" /\ AllInDomain) =>
        /\ enc_out.val = (enc_in[1].v + 1) * 9 + enc_in[2].v * 3 + (enc_in[3].v + 1)
        /\ enc_out.val \in 0..26
        /\ \A d \in DirDomain, r \in RateDomain, p \in PopDomain :
              encode_state(IntVal(d), IntVal(r), IntVal(p)) = enc_out.val
                  => <<IntVal(d), IntVal(r), IntVal(p)>> = enc_in

\* C4 witness: (up, high, up) was encoded as 26.
C4_Witness ==
    /\ enc_out.op = "encode_state"
    /\ AllInDomain
    /\ enc_in[1].v = 1 /\ enc_in[2].v = 2 /\ enc_in[3].v = 1
    /\ enc_out.val = 26

\* C5 (as stated): for s = encode_state(d, r, p) with in-domain d, r, p,
\* decode_direction(s) = d.
C5_DecodeOfStateId ==
    (enc_out.op = "decode_state" /\ AllInDomain) => enc_out.val = enc_in[1].v

\* C5 (amended): decode_direction inverts encode_direction, so for
\* s = encode_state(d, r, p) with in-domain d, r, p, decoding the direction
\* component s div 9 of the state id gives back d.
C5_DecodeOfDirectionId ==
    /\ (enc_out.op = "decode_dir_id" /\ InDomain(enc_in[1], DirDomain)) =>
          /\ enc_out.val = enc_in[1].v
    /\ (enc_out.op = "encode_state" /\ AllInDomain) =>
          decode_direction(IntVal(DirPart(enc_out.val))) = enc_in[1].v

\* C5 witness: direction up was encoded to id 2 and decoded back to 1.
C5_Witness ==
    /\ enc_out.op = "decode_dir_id"
    /\ InDomain(enc_in[1], DirDomain)
    /\ enc_in[1].v = 1
    /\ enc_out.arg = 2
    /\ enc_out.val = 1

\* C6 (as stated): encode_state never fails and returns an id in 0..26 in
\* which every out-of-domain component is encoded as its neutral category 1.
C6_OutOfDomainIsNeutral ==
    enc_out.op = "encode_state" =>
        /\ enc_out.val \in 0..26
        /\ (~InDomain(enc_in[1], DirDomain) => DirPart(enc_out.val) = 1)
        /\ (~InDomain(enc_in[2], RateDomain) => RatePart(enc_out.val) = 1)
        /\ (~InDomain(enc_in[3], PopDomain) => PopPart(enc_out.val) = 1)

\* C6 (amended): for every triple of integers or non-integer objects
\* encode_state returns an id in 0..26 in which an out-of-domain direction
\* or population trend is encoded as flat (1), a rate level that is not an
\* integer as mid (1), an integer rate level below 0 as low (0) and one
\* above 2 as high (2).
C6_OutOfDomainNeutralOrClamped ==
    enc_out.op = "encode_state" =>
        /\ enc_out.val \in 0..26
        /\ (~InDomain(enc_in[1], DirDomain) => DirPart(enc_out.val) = 1)
        /\ (~InDomain(enc_in[3], PopDomain) => PopPart(enc_out.val) = 1)
        /\ (enc_in[2].kind # "int" => RatePart(enc_out.val) = 1)
        /\ ((enc_in[2].kind = "int" /\ enc_in[2].v < 0) => RatePart(enc_out.val) = 0)
        /\ ((enc_in[2].kind = "int" /\ enc_in[2].v > 2) => RatePart(enc_out.val) = 2)

\* C6 witness: direction 2, a non-integer rate level and population trend -2
\* were encoded as (flat, mid, flat) = 13.
C6_Witness ==
    /\ enc_out.op = "encode_state"
    /\ enc_in[1] = IntVal(2)
    /\ enc_in[2] = NonInt
    /\ enc_in[3] = IntVal(-2)
    /\ enc_out.val = 13

(***************************************************************************)
(* Claims about the greedy rollout (specification SpecGreedy)              *)
(***************************************************************************)
\* The rollout has returned and its step cap did not cut the episode short.
UncappedRolloutReturned ==
    /\ pc = "g_returned"
    /\ n_rows >= 2
    /\ params.max_steps >= n_rows - 1

\* C1 (as stated): for every table with n >= 2 rows and every value table,
\* a greedy rollout from reset whose step cap is not reached executes
\* exactly n-2 environment steps and then terminates with done = True.
C1_RolloutTakesNMinus2Steps ==
    UncappedRolloutReturned => (g.steps = n_rows - 2 /\ g.done)

\* C1 (amended): such a rollout executes exactly n-1 environment steps, one
\* per transition of the table, and then terminates with done = True.
C1_RolloutTakesNMinus1Steps ==
    UncappedRolloutReturned =>
        /\ g.steps = n_rows - 1
        /\ Len(g.history) = n_rows - 1
        /\ current_idx = n_rows - 1
        /\ g.done

\* C1 witness: the rollout over a 3-row table returned after 2 steps.
C1_Witness ==
    /\ UncappedRolloutReturned
    /\ n_rows = 3
    /\ g.steps = 2
    /\ g.done

(***************************************************************************)
(* Claims about training and evaluation (specification SpecRL)             *)
(***************************************************************************)
\* What holds of a table with fewer than 2 rows whatever is called on it:
\* reset raises and leaves the pointer unset, no step is executed, no
\* value-table entry is written, and neither loop is entered.
TooFewRowsRejected ==
    /\ current_idx = None
    /\ (call.op = "reset" => ret.raised = "ValueError")
    /\ call.op # "step"
    /\ Q = QZero
    /\ tr.updates = 0
    /\ g.steps = 0
    /\ pc \notin {"t_while", "g_while", "g_returned"}

\* C10 (as stated): on a table with fewer than 2 rows reset fails and leaves
\* the pointer unset, and train and evaluate_greedy fail without executing
\* an environment step or updating a value-table entry.
C10_TrainAndEvaluateFail ==
    n_rows < 2 => (TooFewRowsRejected /\ pc # "t_returned")

\* C10 (amended): on a table with fewer than 2 rows reset fails and leaves
\* the pointer unset; evaluate_greedy, and train with at least one episode,
\* fail at their first reset without executing an environment step or
\* updating a value-table entry; train with zero episodes never calls the
\* environment and returns the all-zero table with an empty reward list.
C10_FailAtFirstReset ==
    n_rows < 2 =>
        /\ TooFewRowsRejected
        /\ pc = "t_for" => tr.ep = 0
        /\ pc = "t_returned" =>
              /\ params.episodes = 0
              /\ tr.episode_rewards = <<>>
              /\ call = NoCall

\* C10 witness: training on a one-row table stopped at its first reset.
C10_Witness ==
    /\ n_rows = 1
    /\ pc = "t_raised"
    /\ call.op = "reset"
    /\ ret.raised = "ValueError"
    /\ params.episodes >= 1

\* The scaled arithmetic of q_update is exact: every entry is a multiple of
\* QScale / 4^(number of updates made).
QExact ==
    \A s \in States, a \in 0..(num_actions - 1) :
        Q[s][a] % (QScale \div Pow(4, tr.updates)) = 0

(***************************************************************************)
(* Claims about the exploration rate (specification SpecEps)               *)
(***************************************************************************)
\* The schedule satisfies 0 <= epsilon_end <= epsilon_start, 0 < epsilon_decay <= 1.
ScheduleInRange ==
    /\ eps_k.sch.end2 <= eps_k.sch.start2
    /\ eps_k.sch.decay2 > 0

\* C13: for such a schedule the exploration rate of episode k is never below
\* epsilon_end and never above the rate of episode k - 1.  (eps_k.cur is the
\* rate times 2^(k+1), eps_k.prev the previous rate times 2^k.)
C13_EpsilonNonIncreasingAboveFloor ==
    (eps_k.k # None /\ ScheduleInRange) =>
        /\ eps_k.cur >= eps_k.sch.end2 * Pow(2, eps_k.k)
        /\ (eps_k.k >= 1 => eps_k.cur <= 2 * eps_k.prev)

\* C13 witness: start 1, end 1/2, decay 1/2: the rate fell from 1 to 1/2 and
\* at episode 2 the decayed rate 1/4 is held up by the floor.
C13_Witness ==
    /\ eps_k.k = 2
    /\ eps_k.sch = [start2 |-> 2, end2 |-> 1, decay2 |-> 1]
    /\ eps_k.cur = Pow(2, eps_k.k)
    /\ eps_k.prev = Pow(2, eps_k.k - 1)
    /\ eps_k.sch.start2 * Pow(eps_k.sch.decay2, eps_k.k) < eps_k.sch.end2 * Pow(2, eps_k.k)

(***************************************************************************)
(* Claims about the rollout trace (specification SpecGreedy)               *)
(***************************************************************************)
RECURSIVE SumRewards(_)
SumRewards(history) ==
    IF history = <<>> THEN 0
    ELSE history[Len(history)].reward + SumRewards(SubSeq(history, 1, Len(history) - 1))

\* run_greedy_policy has reset the environment and is in its loop or has returned.
InRollout == pc \in {"g_while", "g_returned"}

\* C14: the rollout stays in the one episode begun by its reset (the pointer
\* is the number of steps made), makes at most max_steps steps, its step
\* count is the length of the trace, record k (from 0) carries step index k
\* and the months of rows k and k+1, and its total reward is the sum of the
\* rewards in the trace.
C14_TraceMatchesRollout ==
    InRollout =>
        /\ g.steps <= params.max_steps
        /\ g.steps = Len(g.history)
        /\ current_idx = g.steps
        /\ \A k \in 0..(g.steps - 1) :
              /\ g.history[k + 1].step = k
              /\ g.history[k + 1].current_ym = YmOf(k)
              /\ g.history[k + 1].next_ym = YmOf(k + 1)
        /\ g.total_reward = SumRewards(g.history)

\* C14 witness: on a table of MaxTrainRows rows the cap of 1 step ended the
\* rollout before the episode was over, with one record in the trace.
C14_Witness ==
    /\ pc = "g_returned"
    /\ Len(df) = MaxTrainRows
    /\ params.max_steps = 1
    /\ g.steps = 1
    /\ ~g.done
    /\ g.history[1].next_ym = YmOf(1)

(***************************************************************************)
(* Claims about training and evaluation (specification SpecRL)             *)
(***************************************************************************)
RECURSIVE SumSeq(_)
SumSeq(xs) == IF xs = <<>> THEN 0 ELSE xs[1] + SumSeq(Tail(xs))

\* train_q_learning has been called and has not returned.
InTraining == pc \in {"t_for", "t_while"}

C15_NoStepAfterDone ==
    /\ (call.op = "step" =>
          /\ call.idx_before # None
          /\ ~call.done_before
          /\ ret.raised = ""
          /\ ret.reward \in {1, -1})
    /\ \A k \in 1..Len(tr.log) : \A i \in 1..Len(tr.log[k]) : tr.log[k][i] \in {1, -1}
    /\ \A i \in 1..Len(g.history) : g.history[i].reward \in {1, -1}
    /\ (metrics.steps # None =>
          /\ metrics.steps = g.steps
          /\ metrics.correct + metrics.wrong = metrics.steps)

\* C15 witness: the metrics of a two-step rollout after a training episode,
\* one prediction right and one wrong.
C15_Witness ==
    /\ metrics.steps = 2
    /\ metrics.correct = 1
    /\ metrics.wrong = 1
    /\ tr.ep = 1
    /\ call.op = "step"

(***************************************************************************)
(* Claims about the forecasts (specification SpecFc)                       *)
(***************************************************************************)
\* the calendar month after the one labelled l
NextMonth(l) ==
    IF l.month = 12 THEN [year |-> l.year + 1, month |-> 1]
    ELSE [year |-> l.year, month |-> l.month + 1]

LabelBefore(a, b) == a.year < b.year \/ (a.year = b.year /\ a.month < b.month)

\* the label of the last observed month
LastLabel == YmLabel(YmOf(n_rows - 1))

ScenarioDone == fc.scenario_calls > 0
OneStepDone == fc.one_calls > 0

\* The records of the scenario are labelled with the months following the
\* last observed one, in order.
MonthlyLabels ==
    \A k \in 1..Len(fc.scenario) :
        /\ fc.scenario[k].step = k
        /\ fc.scenario[k].ym = NextMonth(IF k = 1 THEN LastLabel ELSE fc.scenario[k - 1].ym)
        /\ (k > 1 => LabelBefore(fc.scenario[k - 1].ym, fc.scenario[k].ym))

IsGreedyAction(a, row) ==
    /\ a \in DOMAIN row
    /\ \A b \in DOMAIN row : row[b] <= row[a]
    /\ \A b \in DOMAIN row : b < a => row[b] < row[a]

C18_ScenarioStateFeedsBack ==
    (ScenarioDone /\ n_rows >= 1) =>
        LET last == df[n_rows]
        IN  \A k \in 1..Len(fc.scenario) :
               LET d_k == IF k = 1 THEN last.direction
                          ELSE fc.scenario[k - 1].predicted_direction
               IN  fc.scenario[k].s =
                       encode_state(IntVal(d_k), IntVal(last.rate_level),
                                    IntVal(last.pop_trend))

\* C18 witness: a scenario whose predicted direction, and so the state
\* looked up, changes from step to step, on a table whose earlier rows have
\* other macro values than the last one.
C18_Witness ==
    /\ ScenarioDone
    /\ n_rows = 3
    /\ Len(fc.scenario) = 12
    /\ fc.scenario[1].s # fc.scenario[2].s
    /\ fc.scenario[2].s # fc.scenario[3].s
    /\ df[1].rate_level # df[n_rows].rate_level

\* the rows of the table with direction d, and those of them whose
\* pct_change is defined
RowsOf(d) == {i \in 1..n_rows : df[i].direction = d}
DefinedRowsOf(d) == {i \in RowsOf(d) : df[i].pct_change # NaN}

RECURSIVE PctTotal(_, _)
\* the sum of the defined pct_change of the rows 1..n with direction d
PctTotal(d, n) ==
    IF n = 0 THEN Rat(0, 1)
    ELSE IF n \in DefinedRowsOf(d) THEN RatAdd(PctTotal(d, n - 1), df[n].pct_change)
    ELSE PctTotal(d, n - 1)

\* x is the mean pct_change of the rows with direction d that have one
IsHistoricalMean(x, d) ==
    LET total == PctTotal(d, n_rows)
        cnt == Cardinality(DefinedRowsOf(d))
    IN  /\ cnt > 0
        /\ isfinite(x)
        /\ x.num * cnt * total.den = total.num * x.den

\* x is +1% for up, 0% for flat, -1% for down
IsDefaultReturn(x, d) ==
    /\ isfinite(x)
    /\ IF d = 1 THEN 100 * x.num = x.den
       ELSE IF d = 0 THEN x.num = 0
       ELSE 100 * x.num = -x.den

\* Neither the applied return nor the price of the record is NaN.
RecordDefined(rec) ==
    /\ isfinite(rec.applied_return)
    /\ rec.scenario_price.base > 0
    /\ \A i \in 1..Len(rec.scenario_price.returns) :
          isfinite(rec.scenario_price.returns[i])

\* C19 (as stated): a step predicting a direction of which the table has no
\* row applies the default return and nothing is NaN; a step predicting a
\* direction of which the table has a row applies the mean pct_change of
\* those rows.
C19_DefaultIffNoRow ==
    ScenarioDone =>
        \A k \in 1..Len(fc.scenario) :
           LET rec == fc.scenario[k]
               d == rec.predicted_direction
           IN  /\ RecordDefined(rec)
               /\ IF RowsOf(d) = {}
                  THEN IsDefaultReturn(rec.applied_return, d)
                  ELSE IsHistoricalMean(rec.applied_return, d)

\* C19 (amended): a step predicting a direction of which the table has no
\* row with a defined pct_change applies the default return; a step
\* predicting any other direction applies the mean pct_change of the rows
\* of that direction that have one; and nothing is NaN.
C19_DefaultIffNoDefinedRow ==
    ScenarioDone =>
        \A k \in 1..Len(fc.scenario) :
           LET rec == fc.scenario[k]
               d == rec.predicted_direction
           IN  /\ RecordDefined(rec)
               /\ IF DefinedRowsOf(d) = {}
                  THEN IsDefaultReturn(rec.applied_return, d)
                  ELSE IsHistoricalMean(rec.applied_return, d)

\* C19 witness: the only flat month of the table is the first one, whose
\* pct_change is undefined; a step predicting "flat" applied 0%, a step
\* predicting "down" (no such month) applied -1%, and a step predicting "up"
\* applied the mean of the two up months, +3%.
C19_Witness ==
    /\ ScenarioDone
    /\ n_rows = 3
    /\ RowsOf(0) = {1}
    /\ RowsOf(-1) = {}
    /\ RowsOf(1) = {2, 3}
    /\ \E k \in 1..Len(fc.scenario) :
          /\ fc.scenario[k].predicted_direction = 0
          /\ fc.scenario[k].applied_return = Rat(0, 1)
    /\ \E k \in 1..Len(fc.scenario) :
          /\ fc.scenario[k].predicted_direction = -1
          /\ fc.scenario[k].applied_return = Rat(-1, 100)
    /\ \E k \in 1..Len(fc.scenario) :
          /\ fc.scenario[k].predicted_direction = 1
          /\ fc.scenario[k].applied_return = Rat(12, 400)

(***************************************************************************)
(* Claims about what the calls leave unchanged (specification SpecRL)      *)
(***************************************************************************)
\* The step is one of run_greedy_policy, of the evaluation after it, or of
\* a forecast call.
RolloutOrForecastStep ==
    \/ pc' \in {"g_while", "g_raised", "g_returned", "m_done"}
    \/ fc' # fc

TheState == get_state(df, 0)
RightAction == df[1].direction + 1

\* The greedy action of the one state is the action index of the direction.
GreedyIsRight == IsGreedyAction(RightAction, Q[TheState])

\* Exploration or exploitation has picked the right action at least once.
RightActionTried ==
    \E k \in 1..Len(tr.log) : \E i \in 1..Len(tr.log[k]) : tr.log[k][i] = 1

\* C11: on a table whose rows are all alike, in a training run in which the
\* action of the recurring direction gets picked at all, the greedy action
\* of the state eventually is that action for good; and no update ever
\* takes the greedy action away from it once it is that action.
C11_GreedyActionConverges ==
    /\ (<>RightActionTried) => <>[]GreedyIsRight
    /\ [][GreedyIsRight => GreedyIsRight']_vars

\* C11 witness: direction "up"; both the right action and a wrong one have
\* been updated and the greedy action is "up".
C11_Witness ==
    /\ df[1].direction = 1
    /\ RightActionTried
    /\ tr.updates >= 2
    /\ Q[TheState][2] > 0
    /\ \E a \in 0..1 : Q[TheState][a] < 0
    /\ GreedyIsRight

(***************************************************************************)
(* Further claims about the environment (specification Spec)               *)
(***************************************************************************)
\* Every direction of the table is -1, 0 or 1.
DirectionsInDomain == \A i \in 1..n_rows : df[i].direction \in {-1, 0, 1}

\* C24: on a table whose directions are all -1, 0 or 1, a step of a running
\* episode returns reward +1 exactly when the action is the direction
\* component (next_state div 9) of the state it returns.
C24_RewardAgreesWithNextState ==
    (DirectionsInDomain /\ LiveStep) =>
        /\ ret.reward \in {1, -1}
        /\ (ret.reward = 1 <=> call.action = ret.state \div 9)

\* C24 witness: a correct "up" prediction; the returned state has direction
\* component 2.
C24_Witness ==
    /\ DirectionsInDomain
    /\ LiveStep
    /\ call.action = 2
    /\ ret.reward = 1
    /\ ret.state \div 9 = 2

\* The last call was a step on an environment that was never reset.
UnsetStep == call.op = "step" /\ call.idx_before = None

\* C25: a step on an environment never reset raises RuntimeError, returns
\* no state, reward or done flag, and leaves the pointer unset, so that the
\* next step call meets the same situation.
C25_StepBeforeResetRaises ==
    /\ (UnsetStep =>
          /\ ret.raised = "RuntimeError"
          /\ ret.state = NoState
          /\ ret.info = NoInfo
          /\ ~ret.done
          /\ current_idx = None
          /\ ~ep_done)
    /\ (current_idx = None =>
          \A a \in Actions : step(df, current_idx, a).raised = "RuntimeError")

\* C25 witness: a step with action 2 on a never-reset environment over a
\* 3-row table has raised.
C25_Witness ==
    /\ UnsetStep
    /\ call.action = 2
    /\ n_rows = 3
    /\ ret.raised = "RuntimeError"
    /\ current_idx = None

(***************************************************************************)
(* Claims about the value table (specification SpecRL)                     *)
(***************************************************************************)
\* The step is one pass of the while loop of train_q_learning.
TrainingStep == tr'.updates = tr.updates + 1

\* m is the largest entry of row
IsRowMax(m, row) ==
    /\ \E b \in DOMAIN row : row[b] = m
    /\ \A b \in DOMAIN row : row[b] <= m

\* C21: a training step taken in state s with action a, returning reward r
\* and next state s2, leaves every entry other than (s, a) as it was and
\* sets entry (s, a) to old + alpha * (r + gamma * max(Q[s2]) - old), the
\* maximum being that of the table before the step, on the last step of an
\* episode as on any other.  (Entries are scaled by QScale, alpha and gamma
\* are alpha2 / 2 and gamma2 / 2.)
C21_OneEntryPerTrainingStep ==
    [][TrainingStep =>
          LET s == tr.state
              a == call'.action
              r == ret'.reward
              s2 == ret'.state
              old == Q[s][a]
          IN  /\ tr'.state = s2
              /\ \A x \in States : \A b \in 0..(num_actions - 1) :
                    (x # s \/ b # a) => Q'[x][b] = Q[x][b]
              /\ \E m \in {Q[s2][b] : b \in 0..(num_actions - 1)} :
                    /\ IsRowMax(m, Q[s2])
                    /\ 4 * (Q'[s][a] - old) =
                          params.alpha2 * (2 * r * QScale + params.gamma2 * m - 2 * old)]_vars

\* C21 witness: alpha = gamma = 1/2, the last step of an episode, whose next
\* state had the entry 1/2 from the first step: the entry written is
\* (1/2) * (r + 1/4), that is 5/8 or -3/8.
C21_Witness ==
    /\ pc = "t_while"
    /\ tr.done
    /\ tr.updates = 2
    /\ params.alpha2 = 1
    /\ params.gamma2 = 1
    /\ \E x \in States : \E b \in 0..(num_actions - 1) :
          8 * Q[x][b] \in {5 * QScale, -3 * QScale}

\* the encoded states of the rows 0..n-2, those a training step starts from
SteppedStates == {get_state(df, i) : i \in 0..(n_rows - 2)}

\* encode_state of the last row of the table
LastRowState == get_state(df, n_rows - 1)

\* C23: whatever the parameters, the episode count and the exploration
\* draws, the value-table row of every state that is not the encoded state
\* of a row 0..n-2 is all zero, during and after training; so when the last
\* row's state occurs at no earlier row the one-step forecast predicts
\* action 0 (down).
C23_UnsteppedRowsStayZero ==
    /\ \A x \in States : x \notin SteppedStates =>
          \A b \in 0..(num_actions - 1) : Q[x][b] = 0
    /\ (OneStepDone /\ n_rows >= 1 /\ LastRowState \notin SteppedStates) =>
          /\ fc.one.raised = ""
          /\ fc.one.action_id = 0
          /\ fc.one.direction_label = "down"

\* C23 witness: training has run an episode of two updates and learned
\* something, the last row's state (direction up) occurs at no earlier row,
\* and the forecast made afterwards is "down".
C23_Witness ==
    /\ pc = "m_done"
    /\ OneStepDone
    /\ n_rows = 3
    /\ tr.updates = 2
    /\ Q # QZero
    /\ df[n_rows].direction = 1
    /\ LastRowState \notin SteppedStates
    /\ fc.one.action_id = 0

\* a is the lowest index holding the largest value of row, which is index 0
\* when the row is all zero
LowestMaximal(a, row) ==
    /\ IsGreedyAction(a, row)
    /\ (\A b \in DOMAIN row : row[b] = 0) => a = 0

RolloutStep == g'.steps = g.steps + 1
OneStepCall == fc'.one_calls = fc.one_calls + 1
ScenarioCall == fc'.scenario_calls = fc.scenario_calls + 1

\* C22: the greedy action for a state is the lowest index among the actions
\* of maximal value in the state's row (action 0 on an all-zero row): in an
\* exploiting training step, in every step of the evaluation rollout, in the
\* one-step forecast and in each of the scenario's records.
C22_GreedyIsLowestMaximal ==
    [][/\ (TrainingStep /\ ~tr'.explored) =>
              LowestMaximal(call'.action, Q[tr.state])
       /\ RolloutStep =>
              /\ LowestMaximal(call'.action, Q[g.state])
              /\ g'.history[Len(g'.history)].action_id = call'.action
       /\ (OneStepCall /\ n_rows >= 1) =>
              LowestMaximal(fc'.one.action_id, Q[LastRowState])
       /\ ScenarioCall =>
              \A i \in 1..Len(fc'.scenario) :
                  LowestMaximal(fc'.scenario[i].predicted_direction + 1,
                                Q[fc'.scenario[i].s])]_vars

\* C22 witness: training never explored; its first step met an all-zero row
\* and took action 0, which was wrong, and its second step met the same
\* state with the row (negative, 0, 0) and took action 1, not action 2; the
\* rollout and both forecasts were then made from the trained table.
C22_Witness ==
    /\ pc = "m_done"
    /\ OneStepDone
    /\ ScenarioDone
    /\ ~tr.explored
    /\ ~may_explore(params.eps, 0)
    /\ tr.updates = 2
    /\ Len(g.history) = 2
    /\ get_state(df, 0) = get_state(df, 1)
    /\ LET row == Q[get_state(df, 0)]
       IN  row[0] < 0 /\ row[1] # 0 /\ row[2] = 0

====
